---------------------------- MODULE Spec2Model ----------------------------
(***************************************************************************)
(* Resgrid to ESO bridge: the delivery wrapper (fingerprint cache, retry   *)
(* with backoff), the three ingestion drivers with their two sinks (XML    *)
(* over SFTP, "Call Data" spreadsheet) and the response-mode resolver.     *)
(*                                                                         *)
(* Text is modelled as a sequence of one-character strings, so that the    *)
(* regular expressions, toLowerCase() and includes() of the source are     *)
(* computed and not assumed.                                               *)
(***************************************************************************)
EXTENDS Naturals, Integers, Sequences, FiniteSets, TLC

VARIABLES
  \* ---- delivery wrapper (src/src/sftp-client.js, retry-util, uploadToSFTP)
  fileContent,       \* local file path -> hash of the bytes it holds now
  fileFingerprints,  \* the Map of sftp-client.js: cache key -> hash | NoHash
  lastTransferred,   \* <<file, remote>> -> hash last stored successfully
  cfgMaxRetries,     \* config.app.maxRetries
  cfgRetryDelay,     \* config.app.retryDelay
  upImpl,            \* which upload function is running / ran last
  upFile, upRemote,  \* its arguments
  upPc,              \* "idle" | "attempt" | "wait" | "returned" | "thrown"
  retryCount,        \* retryCount of withRetry and of index.js uploadToSFTP
  loopI,             \* the loop variable i of the polling script's uploadToSFTP
  lastError,         \* the error of the last failed attempt
  upResult,          \* "none" | "true" | "false"
  upHash,            \* hash of the local file when the call started
  fpOk,              \* calculateFileFingerprint resolved in this call
  hasChanged,        \* what hasFileChanged returned in this call
  attempts,          \* transfer attempts made by this call
  delays,            \* the delays waited by this call, in order
  nonRetryableSeen,  \* an attempt of this call failed with a permanent error
  sftpOpen,          \* the connection of the SftpClient of this call is open
  thrownError,       \* the error this call threw
  prevCall,          \* summary of the upload call that returned just before this one
  \* ---- ingestion drivers and the "Call Data" sheet
  driver,            \* "none" | "processCallAdded" | "processCall" | "finalProcessCall"
  drvPc,             \* "idle" | "upload" | "done"
  callId,            \* Call ID of the incident being processed
  sheetsClient,      \* sheets-logger: the client was initialised
  finalSheetsClient, \* polling script: initializeSheets() produced a client
  sheet,             \* rows of 'Call Data', the header row first
  clock,             \* number of sheet writers run so far (stamps the rows)
  uploadAttempted,   \* the driver called its upload function for this incident
  uploadFailed,      \* ... and the upload threw
  sheetAttempted,    \* the driver called its sheet writer for this incident
  sheetFailed,       \* ... and a sheet request of that writer failed
  lastWrite,         \* what the sheet writer of this incident did
  sheetFailureSeen,  \* some sheet request has failed since the start
  procResult,        \* what the driver returned: "none" | "true" | "false" | "undefined"
  \* ---- response mode
  call,              \* the incident handed to the resolver
  resolvedBy,        \* which program resolved its response mode
  xmlMode,           \* ResponseModeToScene of the XML
  sheetMode,         \* response-mode code behind the row's Response Mode
  \* ---- batch runs (main of the batch programs)
  batch,             \* which program runs: "fetch" | "final" | "export"
  calls,             \* the incidents the source returned, in its order
  inc,               \* per position: how far processing got and what it did
  successCount,      \* successCount / processed
  failCount,         \* failCount of fetch-existing-calls.js
  mainDone,          \* main returned
  \* ---- the transform of one incident
  raw,               \* the raw incident: activity, dispatches, closed-timestamp
  xformBy,           \* which generator transformed it
  derived,           \* the derived fields and the document
  now,               \* the wall clock
  \* ---- the API client and its token
  cachedToken,       \* 0 (null) or the number of the token held
  tokenExpiry,       \* tokenExpiry, in ms
  tnow,              \* Date.now(), in ms
  tokenCalls,        \* posts to the token endpoint so far
  lastGet,           \* the last getApiToken call of a caller
  req,               \* the request in flight through apiClient
  \* ---- the push driver
  flows,             \* per CallAdded notification: where processCallAdded stands
  connState,         \* the SignalR connection
  connectOrigin,     \* who called the connect() under way
  establishedBy,     \* what established the connection last
  reconnectAttempts, \* this.reconnectAttempts
  timers             \* pending setTimeout callbacks of handleConnectionClosed

deliveryVars == <<fileContent, fileFingerprints, lastTransferred, cfgMaxRetries,
                  cfgRetryDelay, upImpl, upFile, upRemote, upPc, retryCount,
                  loopI, lastError, upResult, upHash, fpOk, hasChanged,
                  attempts, delays, nonRetryableSeen, sftpOpen, thrownError,
                  prevCall>>

sinkVars == <<driver, drvPc, callId, sheetsClient, finalSheetsClient, sheet, clock,
              uploadAttempted, uploadFailed, sheetAttempted, sheetFailed, lastWrite,
              sheetFailureSeen, procResult>>

modeVars == <<call, resolvedBy, xmlMode, sheetMode>>

batchVars == <<batch, calls, inc, successCount, failCount, mainDone>>

xformVars == <<raw, xformBy, derived, now>>

clientVars == <<cachedToken, tokenExpiry, tnow, tokenCalls, lastGet, req, flows,
                connState, connectOrigin, establishedBy, reconnectAttempts, timers>>

vars == <<deliveryVars, sinkVars, modeVars, batchVars, xformVars, clientVars>>

---------------------------------------------------------------------------
\* Bounds of the model.
MaxRetriesCfg == 4     \* config.app.maxRetries ranges over 0..MaxRetriesCfg

\* Program constants.
UploadMaxRetries == 5
UploadInitialDelay == 3000
UploadMaxDelay == 60000
LegacyMaxDelay == 30000
FinalAttempts == 3
FinalDelayStep == 5000

RetryDelays == {1000, 5000}

---------------------------------------------------------------------------
\* Text helpers.

UpperCaseLetters == <<"A", "B", "C", "D", "E", "F", "G", "H", "I", "J", "K", "L", "M",
                      "N", "O", "P", "Q", "R", "S", "T", "U", "V", "W", "X", "Y", "Z">>
LowerCaseLetters == <<"a", "b", "c", "d", "e", "f", "g", "h", "i", "j", "k", "l", "m",
                      "n", "o", "p", "q", "r", "s", "t", "u", "v", "w", "x", "y", "z">>

Lower(c) ==
  IF \E i \in 1..26 : UpperCaseLetters[i] = c
    THEN LowerCaseLetters[CHOOSE i \in 1..26 : UpperCaseLetters[i] = c]
    ELSE c

toLowerCase(s) == [i \in 1..Len(s) |-> Lower(s[i])]

\* p occurs in s starting at position i
matchAt(s, p, i) ==
  /\ i >= 1
  /\ i + Len(p) - 1 <= Len(s)
  /\ \A j \in 1..Len(p) : s[i + j - 1] = p[j]

includes(s, p) == \E i \in 1..(Len(s) + 1) : matchAt(s, p, i)

startsWith(s, p) == matchAt(s, p, 1)

Min(a, b) == IF a <= b THEN a ELSE b

Pow2(n) == IF n = 0 THEN 1 ELSE 2 ^ n

---------------------------------------------------------------------------
\* Paths, hashes, errors.

NoHash == "none"
Hashes == {"h1", "h2"}

Files == { <<"a">>, <<"a", ":", "b">> }
Remotes == { <<"r">> }

\* const cacheKey = `${filePath}:${remoteFilePath}`
cacheKey(filePath, remoteFilePath) == filePath \o <<":">> \o remoteFilePath

CacheKeys == { cacheKey(f, r) : f \in Files, r \in Remotes }

NoError == [message |-> <<>>, permanent |-> FALSE]

\* What the transfer channel can answer. "permanent" is the channel's own
\* nature of the failure (authentication / permission denied), "message" the
\* text the code sees.
Errors ==
  { [message |-> <<"c", "o", "n", "n", "e", "c", "t", " ", "E", "T", "I", "M", "E",
                   "D", "O", "U", "T">>,
     permanent |-> FALSE],
    [message |-> <<"P", "e", "r", "m", "i", "s", "s", "i", "o", "n", " ", "d", "e",
                   "n", "i", "e", "d">>,
     permanent |-> TRUE],
    [message |-> <<"A", "l", "l", " ", "c", "o", "n", "f", "i", "g", "u", "r", "e",
                   "d", " ", "a", "u", "t", "h", "e", "n", "t", "i", "c", "a", "t",
                   "i", "o", "n", " ", "m", "e", "t", "h", "o", "d", "s", " ", "f",
                   "a", "i", "l", "e", "d">>,
     permanent |-> TRUE] }

nonRetryableErrors ==
  { <<"a", "u", "t", "h", "e", "n", "t", "i", "c", "a", "t", "i", "o", "n">>,
    <<"p", "e", "r", "m", "i", "s", "s", "i", "o", "n", " ", "d", "e", "n", "i", "e", "d">>,
    <<"i", "n", "v", "a", "l", "i", "d", " ", "c", "r", "e", "d", "e", "n", "t", "i",
      "a", "l", "s">>,
    <<"a", "u", "t", "h", "o", "r", "i", "z", "a", "t", "i", "o", "n">>,
    <<"a", "c", "c", "e", "s", "s", " ", "d", "e", "n", "i", "e", "d">> }

\* shouldRetry of uploadFileToSFTP, on the text of the message
ShouldRetryMessage(message) ==
  LET lowered == toLowerCase(message)
  IN  ~ \E phrase \in nonRetryableErrors : includes(lowered, phrase)

\* shouldRetry evaluated once for each error the channel can answer
shouldRetryOf == [e \in Errors |-> ShouldRetryMessage(e.message)]

shouldRetry(error) == shouldRetryOf[error]

---------------------------------------------------------------------------
\* withRetry (retry-util)

\* a give-up test that stops one retry early
WithRetryGiveUpEarly(count, maxRetries, error) ==
  count + 1 >= maxRetries \/ ~ shouldRetry(error)

\* if (retryCount >= maxRetries || !shouldRetry(error)) throw error
WithRetryGiveUp(count, maxRetries, error) ==
  count >= maxRetries \/ ~ shouldRetry(error)

\* delay = initialDelay; if (exponential) delay = Math.min(initialDelay * 2^retryCount, maxDelay)
WithRetryDelay(initialDelay, maxDelay, exponential, count) ==
  IF exponential THEN Min(initialDelay * Pow2(count), maxDelay) ELSE initialDelay

\* a backoff that forgets the cap
getRetryDelayUncapped(attempt) == cfgRetryDelay * Pow2(attempt)

\* index.js: getRetryDelay(attempt)
getRetryDelay(attempt) == Min(cfgRetryDelay * Pow2(attempt), LegacyMaxDelay)

\* index.js: after retryCount++, retry while retryCount <= maxRetries
LegacyRetryAgain(count, maxRetries) == count <= maxRetries

\* polling script: setTimeout(resolve, i * 5000)
FinalDelay(i) == i * FinalDelayStep

\* polling script: if (i === 3) throw error
FinalGiveUp(i) == i = FinalAttempts

---------------------------------------------------------------------------
\* hasFileChanged

\* a hasFileChanged that never stores the fingerprint
HasFileChangedCacheNoStore(cache, filePath, remoteFilePath, newFingerprint) == cache

\* The cache after hasFileChanged(filePath, remoteFilePath) computed newFingerprint
HasFileChangedCache(cache, filePath, remoteFilePath, newFingerprint) ==
  [cache EXCEPT ![cacheKey(filePath, remoteFilePath)] = newFingerprint]

\* The value hasFileChanged returns when the fingerprint was computed
HasFileChangedResult(cache, filePath, remoteFilePath, newFingerprint) ==
  LET oldFingerprint == cache[cacheKey(filePath, remoteFilePath)]
  IN  IF oldFingerprint = NoHash THEN TRUE ELSE newFingerprint # oldFingerprint

\* a catch block of hasFileChanged that forgets the pair's fingerprint
HasFileChangedFailedForgets(cache, filePath, remoteFilePath) ==
  [cache EXCEPT ![cacheKey(filePath, remoteFilePath)] = NoHash]

\* The cache after calculateFileFingerprint threw in hasFileChanged: the catch
\* block is entered before the cache is read or written
HasFileChangedFailed(cache, filePath, remoteFilePath) == cache

Finished == {"returned", "thrown"}

NoCall == [impl |-> "none"]

CallSummary ==
  IF upImpl = "uploadFileToSFTP"
    THEN [impl |-> upImpl, file |-> upFile, remote |-> upRemote, hash |-> upHash,
          fpOk |-> fpOk, hasChanged |-> hasChanged]
    ELSE NoCall

\* The part of every upload call that resets the per-call bookkeeping
BeginCall(impl, f, r) ==
  /\ upPc = "idle"
  /\ upImpl' = impl
  /\ upFile' = f
  /\ upRemote' = r
  /\ upHash' = fileContent'[f]
  /\ retryCount' = 0
  /\ loopI' = 1
  /\ lastError' = NoError
  /\ attempts' = 0
  /\ delays' = <<>>
  /\ nonRetryableSeen' = FALSE
  /\ sftpOpen' = FALSE
  /\ thrownError' = NoError
  /\ UNCHANGED <<lastTransferred, cfgMaxRetries, cfgRetryDelay, prevCall>>

\* uploadFileToSFTP(localFilePath, remoteFilePath) up to the call of withRetry
UploadFileToSFTP(f, r, fingerprintOk) ==
  /\ UNCHANGED fileContent
  /\ BeginCall("uploadFileToSFTP", f, r)
  /\ fpOk' = fingerprintOk
  /\ IF fingerprintOk
       THEN /\ fileFingerprints' =
                 HasFileChangedCache(fileFingerprints, f, r, fileContent[f])
            /\ hasChanged' = HasFileChangedResult(fileFingerprints, f, r, fileContent[f])
       ELSE /\ fileFingerprints' = HasFileChangedFailed(fileFingerprints, f, r)
            /\ hasChanged' = TRUE
  /\ IF hasChanged'
       THEN upPc' = "attempt" /\ upResult' = "none"
       ELSE upPc' = "returned" /\ upResult' = "false"

\* index.js / fetch-existing-calls.js: uploadToSFTP(localFilePath, remoteFilePath)
UploadToSFTP(f, r) ==
  /\ BeginCall("uploadToSFTP", f, r)
  /\ fpOk' = TRUE
  /\ hasChanged' = TRUE
  /\ upResult' = "none"
  /\ upPc' = IF 0 <= cfgMaxRetries THEN "attempt" ELSE "returned"
  /\ UNCHANGED fileFingerprints

\* polling script: uploadToSFTP(localFilePath, remoteFilePath)
FinalUploadToSFTP(f, r) ==
  /\ BeginCall("finalUploadToSFTP", f, r)
  /\ fpOk' = TRUE
  /\ hasChanged' = TRUE
  /\ upResult' = "none"
  /\ upPc' = "attempt"
  /\ UNCHANGED fileFingerprints

\* sftp.put resolved: the bytes of the local file are at the remote path
Stored ==
  /\ lastTransferred' = [lastTransferred EXCEPT ![<<upFile, upRemote>>] = fileContent[upFile]]
  /\ upResult' = "true"
  /\ upPc' = "returned"
  /\ thrownError' = thrownError

\* a withRetry that throws the error it had kept from the attempt before
WithRetryThrowsKept(error, kept) == IF kept = NoError THEN error ELSE kept

\* The error withRetry throws from its catch block: the one it just caught
WithRetryThrows(error, kept) == error

\* The errors raised by sftp.connect; the others are raised by an operation on
\* the connection that sftp.connect opened
ConnectErrors == {e \in Errors : e.message[1] \in {"c", "A"}}

\* Whether the client holds an open connection after an attempt that failed
\* with the error and did not call sftp.end()
OpenAfterFailure(open, error) == open \/ error \notin ConnectErrors

AttemptFrame == UNCHANGED <<fileContent, fileFingerprints, cfgMaxRetries, cfgRetryDelay,
                            upImpl, upFile, upRemote, upHash, fpOk, hasChanged,
                            prevCall, sinkVars, modeVars, batchVars, xformVars, clientVars>>

\* one turn of the loop of withRetry: fn() and the catch block up to the wait
WithRetryAttempt(ok, error) ==
  /\ upPc = "attempt"
  /\ upImpl = "uploadFileToSFTP"
  /\ attempts' = attempts + 1
  /\ IF ok
       THEN /\ Stored
            /\ UNCHANGED <<lastError, delays, nonRetryableSeen>>
       ELSE /\ lastError' = error
            /\ nonRetryableSeen' = (nonRetryableSeen \/ error.permanent)
            /\ IF WithRetryGiveUp(retryCount, UploadMaxRetries, error)
                 THEN /\ upPc' = "thrown"
                      /\ delays' = delays
                      /\ thrownError' = WithRetryThrows(error, lastError)
                 ELSE /\ upPc' = "wait"
                      /\ thrownError' = thrownError
                      /\ delays' = Append(delays,
                           WithRetryDelay(UploadInitialDelay, UploadMaxDelay, TRUE, retryCount))
            /\ UNCHANGED <<lastTransferred, upResult>>
  /\ sftpOpen' = FALSE
  /\ UNCHANGED <<retryCount, loopI>>
  /\ AttemptFrame

\* the timer of withRetry fired: retryCount++ and the loop condition
WithRetryWaited ==
  /\ upPc = "wait"
  /\ upImpl = "uploadFileToSFTP"
  /\ retryCount' = retryCount + 1
  /\ IF retryCount + 1 <= UploadMaxRetries
       THEN upPc' = "attempt" /\ thrownError' = thrownError
       ELSE upPc' = "thrown" /\ thrownError' = lastError
  /\ UNCHANGED <<lastError, delays, nonRetryableSeen, lastTransferred, upResult,
                 attempts, loopI, sftpOpen>>
  /\ AttemptFrame

\* one turn of the loop of index.js uploadToSFTP
UploadToSFTPAttempt(ok, error) ==
  /\ upPc = "attempt"
  /\ upImpl = "uploadToSFTP"
  /\ attempts' = attempts + 1
  /\ IF ok
       THEN /\ Stored
            /\ sftpOpen' = FALSE
            /\ UNCHANGED <<lastError, delays, nonRetryableSeen, retryCount>>
       ELSE /\ lastError' = error
            /\ nonRetryableSeen' = (nonRetryableSeen \/ error.permanent)
            /\ retryCount' = retryCount + 1
            /\ IF LegacyRetryAgain(retryCount + 1, cfgMaxRetries)
                 THEN /\ upPc' = "wait"
                      /\ delays' = Append(delays, getRetryDelay(retryCount + 1 - 1))
                      /\ sftpOpen' = OpenAfterFailure(sftpOpen, error)
                      /\ thrownError' = thrownError
                 ELSE /\ upPc' = "thrown"
                      /\ delays' = delays
                      /\ sftpOpen' = FALSE
                      /\ thrownError' = error
            /\ UNCHANGED <<lastTransferred, upResult>>
  /\ UNCHANGED loopI
  /\ AttemptFrame

\* the timer of index.js uploadToSFTP fired: back to the loop condition
UploadToSFTPWaited ==
  /\ upPc = "wait"
  /\ upImpl = "uploadToSFTP"
  /\ upPc' = IF retryCount <= cfgMaxRetries THEN "attempt" ELSE "returned"
  /\ UNCHANGED <<retryCount, lastError, delays, nonRetryableSeen, lastTransferred,
                 upResult, attempts, loopI, sftpOpen, thrownError>>
  /\ AttemptFrame

\* one turn of the for loop of the polling script's uploadToSFTP
FinalUploadAttempt(ok, error) ==
  /\ upPc = "attempt"
  /\ upImpl = "finalUploadToSFTP"
  /\ attempts' = attempts + 1
  /\ IF ok
       THEN /\ Stored
            /\ sftpOpen' = FALSE
            /\ UNCHANGED <<lastError, delays, nonRetryableSeen>>
       ELSE /\ lastError' = error
            /\ nonRetryableSeen' = (nonRetryableSeen \/ error.permanent)
            /\ sftpOpen' = OpenAfterFailure(sftpOpen, error)
            /\ IF FinalGiveUp(loopI)
                 THEN upPc' = "thrown" /\ delays' = delays /\ thrownError' = error
                 ELSE /\ upPc' = "wait"
                      /\ delays' = Append(delays, FinalDelay(loopI))
                      /\ thrownError' = thrownError
            /\ UNCHANGED <<lastTransferred, upResult>>
  /\ UNCHANGED <<retryCount, loopI>>
  /\ AttemptFrame

\* the timer of the polling script's uploadToSFTP fired: i++ and the loop condition
FinalUploadWaited ==
  /\ upPc = "wait"
  /\ upImpl = "finalUploadToSFTP"
  /\ loopI' = loopI + 1
  /\ IF loopI + 1 <= FinalAttempts
       THEN upPc' = "attempt" /\ upResult' = upResult
       ELSE upPc' = "returned" /\ upResult' = "false"
  /\ sftpOpen' = FALSE
  /\ UNCHANGED <<retryCount, lastError, delays, nonRetryableSeen, lastTransferred,
                 attempts, thrownError>>
  /\ AttemptFrame

\* the XML of a call is written to the local file (fs.writeFileSync)
WriteFile(f, h) ==
  /\ upPc = "idle"
  /\ fileContent[f] # h
  /\ fileContent' = [fileContent EXCEPT ![f] = h]
  /\ UNCHANGED <<fileFingerprints, lastTransferred, cfgMaxRetries, cfgRetryDelay,
                 upImpl, upFile, upRemote, upPc, retryCount, loopI, lastError,
                 upResult, upHash, fpOk, hasChanged, attempts, delays,
                 nonRetryableSeen, sftpOpen, thrownError, prevCall, sinkVars, modeVars,
                 batchVars, xformVars, clientVars>>

\* the promise of the upload call settles: its frame is gone
Settle ==
  /\ upPc \in Finished
  /\ prevCall' = CallSummary
  /\ upPc' = "idle"
  /\ upImpl' = "none"
  /\ upFile' = <<>>
  /\ upRemote' = <<>>
  /\ upHash' = NoHash
  /\ fpOk' = TRUE
  /\ hasChanged' = FALSE
  /\ retryCount' = 0
  /\ loopI' = 1
  /\ lastError' = NoError
  /\ upResult' = "none"
  /\ attempts' = 0
  /\ delays' = <<>>
  /\ nonRetryableSeen' = FALSE
  /\ sftpOpen' = FALSE
  /\ thrownError' = NoError
  /\ UNCHANGED <<fileFingerprints, lastTransferred, cfgMaxRetries, cfgRetryDelay>>

\* clearFingerprintCache(filePath) with a path: every key that starts with
\* filePath + ':' is deleted
ClearFingerprintCache(filePath) ==
  /\ upPc = "idle"
  /\ drvPc = "idle"
  /\ fileFingerprints' =
       [k \in CacheKeys |-> IF startsWith(k, filePath \o <<":">>) THEN NoHash
                            ELSE fileFingerprints[k]]
  /\ UNCHANGED <<fileContent, lastTransferred, cfgMaxRetries, cfgRetryDelay,
                 upImpl, upFile, upRemote, upPc, retryCount, loopI, lastError,
                 upResult, upHash, fpOk, hasChanged, attempts, delays,
                 nonRetryableSeen, sftpOpen, thrownError, prevCall, sinkVars, modeVars,
                 batchVars, xformVars, clientVars>>

\* an upload called on its own settles
Return ==
  /\ drvPc = "idle"
  /\ Settle
  /\ UNCHANGED <<fileContent, sinkVars, modeVars, batchVars, xformVars, clientVars>>

---------------------------------------------------------------------------
\* Defaults of the deployment: MAX_RETRIES=3, RETRY_DELAY=5000
DefaultMaxRetries == 3
DefaultRetryDelay == 5000

UploadIdle ==
  /\ fileFingerprints = [k \in CacheKeys |-> NoHash]
  /\ lastTransferred = [p \in Files \X Remotes |-> NoHash]
  /\ upImpl = "none"
  /\ upFile = <<>>
  /\ upRemote = <<>>
  /\ upPc = "idle"
  /\ retryCount = 0
  /\ loopI = 1
  /\ lastError = NoError
  /\ upResult = "none"
  /\ upHash = NoHash
  /\ fpOk = TRUE
  /\ hasChanged = FALSE
  /\ attempts = 0
  /\ delays = <<>>
  /\ nonRetryableSeen = FALSE
  /\ sftpOpen = FALSE
  /\ thrownError = NoError
  /\ prevCall = NoCall

NoWrite == [fn |-> "none"]

NoIncident == [CallId |-> "", Nature |-> <<>>, Priority |-> "", ExtraPriorityId |-> ""]

HeaderRow == [CallId |-> "Call ID", Stamp |-> 0]

DriverIdle ==
  /\ driver = "none"
  /\ drvPc = "idle"
  /\ callId = ""
  /\ uploadAttempted = FALSE
  /\ uploadFailed = FALSE
  /\ sheetAttempted = FALSE
  /\ sheetFailed = FALSE
  /\ lastWrite = NoWrite
  /\ procResult = "none"

\* No incident is being processed and the sheet holds its header row only
SinkIdle ==
  /\ DriverIdle
  /\ sheetsClient = FALSE
  /\ finalSheetsClient = FALSE
  /\ sheet = <<HeaderRow>>
  /\ clock = 0
  /\ sheetFailureSeen = FALSE

ModeIdle ==
  /\ call = NoIncident
  /\ resolvedBy = "none"
  /\ xmlMode = ""
  /\ sheetMode = ""

NoRaw == [activity |-> <<>>, dispatches |-> <<>>, ClosedOn |-> "", LoggedOn |-> "",
          City |-> <<>>, given |-> FALSE]

NoDerived == [enRoute |-> "", onScene |-> "", atPatient |-> "", cleared |-> "",
              backInService |-> "", units |-> <<>>, xml |-> <<>>]

\* No batch runs and nothing is being transformed
BatchIdle ==
  /\ batch = "none"
  /\ calls = <<>>
  /\ inc = <<>>
  /\ successCount = 0
  /\ failCount = 0
  /\ mainDone = FALSE

XformIdle ==
  /\ raw = NoRaw
  /\ xformBy = "none"
  /\ derived = NoDerived
  /\ now = 0

\* No token is held and no request is in flight
ClientIdle ==
  /\ cachedToken = 0
  /\ tokenExpiry = 0
  /\ tnow = 0
  /\ tokenCalls = 0
  /\ lastGet = [forced |-> FALSE, before |-> 0, expiry |-> 0, at |-> 0, returned |-> 0,
                posts |-> 0, made |-> FALSE]
  /\ req = [pc |-> "idle", retry |-> FALSE, sends |-> 0, forced |-> 0, got401 |-> 0,
            discarded |-> FALSE, bearer |-> 0, result |-> "none"]
  /\ flows = <<>>
  /\ connState = "none"
  /\ connectOrigin = "none"
  /\ establishedBy = "none"
  /\ reconnectAttempts = 0
  /\ timers = 0

RestIdle == ModeIdle /\ BatchIdle /\ XformIdle /\ ClientIdle

\* The delivery wrapper with its fingerprint cache, files being rewritten
DeliveryInit ==
  /\ fileContent \in [Files -> Hashes]
  /\ cfgMaxRetries = DefaultMaxRetries
  /\ cfgRetryDelay = DefaultRetryDelay
  /\ UploadIdle
  /\ SinkIdle
  /\ RestIdle

\* The three upload functions under any retry configuration
RetryInit ==
  /\ fileContent = [f \in Files |-> "h1"]
  /\ cfgMaxRetries \in 0..MaxRetriesCfg
  /\ cfgRetryDelay \in RetryDelays
  /\ UploadIdle
  /\ SinkIdle
  /\ RestIdle

CallUploadFileToSFTP ==
  /\ \E f \in Files, r \in Remotes, fingerprintOk \in BOOLEAN :
       UploadFileToSFTP(f, r, fingerprintOk)
  /\ UNCHANGED <<sinkVars, modeVars, batchVars, xformVars, clientVars>>

\* the one file and destination of the retry specification
RetryFile == <<"a">>
RetryRemote == <<"r">>

RetryUploadFileToSFTP ==
  /\ \E fingerprintOk \in BOOLEAN : UploadFileToSFTP(RetryFile, RetryRemote, fingerprintOk)
  /\ UNCHANGED <<sinkVars, modeVars, batchVars, xformVars, clientVars>>

CallUploadToSFTP ==
  /\ UNCHANGED fileContent
  /\ UploadToSFTP(RetryFile, RetryRemote)
  /\ UNCHANGED <<sinkVars, modeVars, batchVars, xformVars, clientVars>>

CallFinalUploadToSFTP ==
  /\ UNCHANGED fileContent
  /\ FinalUploadToSFTP(RetryFile, RetryRemote)
  /\ UNCHANGED <<sinkVars, modeVars, batchVars, xformVars, clientVars>>

WithRetryAttemptStep ==
  \/ WithRetryAttempt(TRUE, NoError)
  \/ \E e \in Errors : WithRetryAttempt(FALSE, e)

UploadToSFTPAttemptStep ==
  \/ UploadToSFTPAttempt(TRUE, NoError)
  \/ \E e \in Errors : UploadToSFTPAttempt(FALSE, e)

FinalUploadAttemptStep ==
  \/ FinalUploadAttempt(TRUE, NoError)
  \/ \E e \in Errors : FinalUploadAttempt(FALSE, e)

ClearFingerprintCacheStep == \E f \in Files : ClearFingerprintCache(f)

WriteFileStep == \E f \in Files, h \in Hashes : WriteFile(f, h)

DeliveryNext ==
  \/ CallUploadFileToSFTP
  \/ WithRetryAttemptStep
  \/ WithRetryWaited
  \/ Return
  \/ WriteFileStep

SpecDelivery == DeliveryInit /\ [][DeliveryNext]_vars

\* The delivery wrapper with a caller that also clears the cache
ClearNext ==
  \/ DeliveryNext
  \/ ClearFingerprintCacheStep

SpecClear == DeliveryInit /\ [][ClearNext]_vars

RetryNext ==
  \/ RetryUploadFileToSFTP
  \/ CallUploadToSFTP
  \/ CallFinalUploadToSFTP
  \/ WithRetryAttemptStep
  \/ WithRetryWaited
  \/ UploadToSFTPAttemptStep
  \/ UploadToSFTPWaited
  \/ FinalUploadAttemptStep
  \/ FinalUploadWaited
  \/ Return

SpecRetry == RetryInit /\ [][RetryNext]_vars

---------------------------------------------------------------------------
\* The 'Call Data' sheet and its two writers.

MaxWrites == 3      \* sheet writers run at most MaxWrites times

CallIds == {"101", "102"}

\* the temporary XML file of an incident, its destination, its content
localFilePath(id) == <<"a">>
remoteFilePath(id) == <<"r">>
XmlOf(id) == IF id = "101" THEN "h1" ELSE "h2"

Row(id, stamp) == [CallId |-> id, Stamp |-> stamp]

\* for (let i = 1; i < rows.length; i++) if (rows[i][1] === call.CallId) ...
\* the index is the JavaScript one: rows[i] is the element i + 1 here
ExistingRowIndex(rows, id) ==
  LET hits == { i \in 1..(Len(rows) - 1) : rows[i + 1].CallId = id }
  IN  IF hits = {} THEN -1 ELSE CHOOSE i \in hits : \A j \in hits : i <= j

\* spreadsheets.values.append
AppendRow(rows, row) == Append(rows, row)

\* spreadsheets.values.update of the range A<n>:Z<n>
UpdateRow(rows, n, row) == [rows EXCEPT ![n] = row]

\* What the sheet service answers to the requests of one logCallData:
\* the lookup, the update or append that follows it, the fallback append.
\* A request that is not sent is listed as TRUE.
SheetAnswers ==
  { [getOk |-> TRUE, writeOk |-> TRUE, fallbackOk |-> TRUE],
    [getOk |-> FALSE, writeOk |-> TRUE, fallbackOk |-> TRUE],
    [getOk |-> FALSE, writeOk |-> TRUE, fallbackOk |-> FALSE],
    [getOk |-> TRUE, writeOk |-> FALSE, fallbackOk |-> TRUE],
    [getOk |-> TRUE, writeOk |-> FALSE, fallbackOk |-> FALSE] }

AllOk == [getOk |-> TRUE, writeOk |-> TRUE, fallbackOk |-> TRUE]

\* a catch block that only logs
LogCallDataFallbackDropped(rows, row, fallbackOk) == rows

\* logCallData: the catch block of the lookup / update, a plain append
LogCallDataFallback(rows, row, fallbackOk) ==
  IF fallbackOk THEN AppendRow(rows, row) ELSE rows

\* logCallData: the rows of the sheet after the upsert
LogCallDataRows(rows, row, ans) ==
  IF ~ ans.getOk
    THEN LogCallDataFallback(rows, row, ans.fallbackOk)
    ELSE LET existingRowIndex == ExistingRowIndex(rows, row.CallId)
         IN  IF existingRowIndex > 0
               THEN IF ans.writeOk
                      THEN UpdateRow(rows, existingRowIndex + 1, row)
                      ELSE LogCallDataFallback(rows, row, ans.fallbackOk)
               ELSE IF ans.writeOk
                      THEN AppendRow(rows, row)
                      ELSE LogCallDataFallback(rows, row, ans.fallbackOk)

\* logCallData(call, activity, dispatches) of the polling script
LogCallData(id, ans) ==
  /\ sheetAttempted' = TRUE
  /\ clock' = clock + 1
  /\ IF ~ finalSheetsClient
       THEN /\ ans = AllOk
            /\ sheet' = sheet
            /\ sheetFailed' = FALSE
            /\ sheetFailureSeen' = sheetFailureSeen
            /\ lastWrite' = [fn |-> "logCallData", enabled |-> FALSE,
                             lookupFailed |-> FALSE, fallbackOk |-> TRUE,
                             before |-> Len(sheet)]
       ELSE /\ sheet' = LogCallDataRows(sheet, Row(id, clock + 1), ans)
            /\ sheetFailed' = (ans # AllOk)
            /\ sheetFailureSeen' = (sheetFailureSeen \/ ans # AllOk)
            /\ lastWrite' = [fn |-> "logCallData", enabled |-> TRUE,
                             lookupFailed |-> ~ ans.getOk,
                             fallbackOk |-> ans.fallbackOk,
                             before |-> Len(sheet)]

\* sheetCallRow(callData, extraData) of sheets-logger
SheetCallRow(id, initOk, appendOk) ==
  /\ sheetsClient => initOk
  /\ ~ initOk => appendOk
  /\ sheetAttempted' = TRUE
  /\ clock' = clock + 1
  /\ sheetsClient' = (sheetsClient \/ initOk)
  /\ sheet' = IF initOk /\ appendOk THEN AppendRow(sheet, Row(id, clock + 1)) ELSE sheet
  /\ sheetFailed' = ~ (initOk /\ appendOk)
  /\ sheetFailureSeen' = (sheetFailureSeen \/ (initOk /\ ~ appendOk))
  /\ lastWrite' = [fn |-> "sheetCallRow", enabled |-> initOk,
                   lookupFailed |-> FALSE, fallbackOk |-> TRUE,
                   before |-> Len(sheet)]

---------------------------------------------------------------------------
\* The three ingestion drivers.

SheetUntouched == UNCHANGED <<sheet, clock, sheetsClient, sheetAttempted, sheetFailed,
                              lastWrite, sheetFailureSeen>>

\* processCallAdded / processCall up to the await of uploadToSFTP:
\* extra data, XML, temporary file, upload started
FetchThenUpload(d, id, extraOk, failResult) ==
  /\ drvPc = "idle"
  /\ upPc = "idle"
  /\ clock < MaxWrites
  /\ driver' = d
  /\ callId' = id
  /\ uploadFailed' = FALSE
  /\ IF extraOk
       THEN /\ fileContent' = [fileContent EXCEPT ![localFilePath(id)] = XmlOf(id)]
            /\ UploadToSFTP(localFilePath(id), remoteFilePath(id))
            /\ uploadAttempted' = TRUE
            /\ drvPc' = "upload"
            /\ procResult' = "none"
       ELSE /\ UNCHANGED deliveryVars
            /\ uploadAttempted' = FALSE
            /\ drvPc' = "done"
            /\ procResult' = failResult
  /\ SheetUntouched
  /\ UNCHANGED <<finalSheetsClient, modeVars, batchVars, xformVars, clientVars>>

\* processCallAdded / processCall once uploadToSFTP settled: the sheet row
\* is written in the try block, after the upload
AfterUpload(d, initOk, appendOk, okResult, failResult) ==
  /\ driver = d
  /\ drvPc = "upload"
  /\ upPc \in Finished
  /\ Settle
  /\ drvPc' = "done"
  /\ IF upPc = "returned"
       THEN /\ fileContent' = [fileContent EXCEPT ![upFile] = NoHash]
            /\ SheetCallRow(callId, initOk, appendOk)
            /\ uploadFailed' = FALSE
            /\ procResult' = okResult
       ELSE /\ initOk /\ appendOk
            /\ uploadFailed' = TRUE
            /\ procResult' = failResult
            /\ UNCHANGED fileContent
            /\ SheetUntouched
  /\ UNCHANGED <<driver, callId, uploadAttempted, finalSheetsClient, modeVars, batchVars, xformVars, clientVars>>

\* index.js: processCallAdded(callData)
ProcessCallAdded(id, extraOk) == FetchThenUpload("processCallAdded", id, extraOk, "undefined")

ProcessCallAddedUploaded(initOk, appendOk) ==
  AfterUpload("processCallAdded", initOk, appendOk, "undefined", "undefined")

\* fetch-existing-calls.js: processCall(call)
ProcessCall(id, extraOk) == FetchThenUpload("processCall", id, extraOk, "false")

ProcessCallUploaded(initOk, appendOk) ==
  AfterUpload("processCall", initOk, appendOk, "true", "false")

\* polling script: processCall(token, call) up to the await of uploadToSFTP:
\* XML, temporary file, sheet row, upload started
FinalProcessCall(id, ans) ==
  /\ drvPc = "idle"
  /\ upPc = "idle"
  /\ clock < MaxWrites
  /\ driver' = "finalProcessCall"
  /\ callId' = id
  /\ fileContent' = [fileContent EXCEPT ![localFilePath(id)] = XmlOf(id)]
  /\ LogCallData(id, ans)
  /\ FinalUploadToSFTP(localFilePath(id), remoteFilePath(id))
  /\ uploadAttempted' = TRUE
  /\ uploadFailed' = FALSE
  /\ drvPc' = "upload"
  /\ procResult' = "none"
  /\ UNCHANGED <<sheetsClient, finalSheetsClient, modeVars, batchVars, xformVars, clientVars>>

\* polling script: processCall once uploadToSFTP settled
FinalProcessCallUploaded ==
  /\ driver = "finalProcessCall"
  /\ drvPc = "upload"
  /\ upPc \in Finished
  /\ Settle
  /\ uploadFailed' = (upPc = "thrown")
  /\ fileContent' = [fileContent EXCEPT ![upFile] = NoHash]
  /\ drvPc' = "done"
  /\ procResult' = "true"
  /\ SheetUntouched
  /\ UNCHANGED <<driver, callId, uploadAttempted, finalSheetsClient, modeVars, batchVars, xformVars, clientVars>>

\* the driver returned and its caller takes the next incident
Finish ==
  /\ drvPc = "done"
  /\ driver' = "none"
  /\ drvPc' = "idle"
  /\ callId' = ""
  /\ uploadAttempted' = FALSE
  /\ uploadFailed' = FALSE
  /\ sheetAttempted' = FALSE
  /\ sheetFailed' = FALSE
  /\ lastWrite' = NoWrite
  /\ procResult' = "none"
  /\ UNCHANGED <<deliveryVars, sheetsClient, finalSheetsClient, sheet, clock,
                 sheetFailureSeen, modeVars, batchVars, xformVars, clientVars>>

\* The drivers, one incident at a time, against one sheet
Init ==
  /\ fileContent = [f \in Files |-> NoHash]
  /\ cfgMaxRetries = DefaultMaxRetries
  /\ cfgRetryDelay = DefaultRetryDelay
  /\ UploadIdle
  /\ DriverIdle
  /\ sheetsClient = FALSE
  /\ finalSheetsClient \in BOOLEAN
  /\ sheet = <<HeaderRow>>
  /\ clock = 0
  /\ sheetFailureSeen = FALSE
  /\ RestIdle

ProcessCallAddedStep == \E id \in CallIds, extraOk \in BOOLEAN : ProcessCallAdded(id, extraOk)

ProcessCallAddedUploadedStep ==
  \E initOk \in BOOLEAN, appendOk \in BOOLEAN : ProcessCallAddedUploaded(initOk, appendOk)

ProcessCallStep == \E id \in CallIds, extraOk \in BOOLEAN : ProcessCall(id, extraOk)

ProcessCallUploadedStep ==
  \E initOk \in BOOLEAN, appendOk \in BOOLEAN : ProcessCallUploaded(initOk, appendOk)

FinalProcessCallStep == \E id \in CallIds, ans \in SheetAnswers : FinalProcessCall(id, ans)

Next ==
  \/ ProcessCallAddedStep
  \/ ProcessCallAddedUploadedStep
  \/ ProcessCallStep
  \/ ProcessCallUploadedStep
  \/ FinalProcessCallStep
  \/ FinalProcessCallUploaded
  \/ UploadToSFTPAttemptStep
  \/ UploadToSFTPWaited
  \/ FinalUploadAttemptStep
  \/ FinalUploadWaited
  \/ Finish

Spec == Init /\ [][Next]_vars

---------------------------------------------------------------------------
\* The response mode: '390' lights and sirens, '395' no lights and sirens.

Natures ==
  { <<>>,
    <<"F", "a", "l", "l">>,
    <<"R", "o", "u", "t", "i", "n", "e">>,
    <<"N", "o", "n", "-", "U", "r", "g", "e", "n", "t">>,
    <<"n", "o", "n", " ", "e", "m", "e", "r", "g", "e", "n", "c", "y">>,
    <<"S", "C", "H", "E", "D", "U", "L", "E", "D">>,
    <<"n", "o", "n", "<", "b", "r", ">", "u", "r", "g", "e", "n", "t">> }

\* Priority ids as the CAD sends them; "" stands for a missing field
PriorityIds == {"", "1559", "1560", "1561"}

Incidents ==
  { [CallId |-> "101", Nature |-> n, Priority |-> p, ExtraPriorityId |-> x] :
      n \in Natures, p \in PriorityIds, x \in PriorityIds }

LineTerminators == {"\n", "\r"}

\* /non.?<word>/ on lowered text
NonThen(s, word) ==
  \E i \in 1..Len(s) :
    /\ matchAt(s, <<"n", "o", "n">>, i)
    /\ \/ matchAt(s, word, i + 3)
       \/ /\ i + 3 <= Len(s)
          /\ s[i + 3] \notin LineTerminators
          /\ matchAt(s, word, i + 4)

\* /non.?emergency|non.?urgent|routine|scheduled/i.test(text)
NonEmergencyTest(text) ==
  LET s == toLowerCase(text)
  IN  \/ NonThen(s, <<"e", "m", "e", "r", "g", "e", "n", "c", "y">>)
      \/ NonThen(s, <<"u", "r", "g", "e", "n", "t">>)
      \/ includes(s, <<"r", "o", "u", "t", "i", "n", "e">>)
      \/ includes(s, <<"s", "c", "h", "e", "d", "u", "l", "e", "d">>)

WhiteSpace == {" ", "\t", "\n", "\r"}

\* .replace(/<[^>]*>/g, ' ')
RECURSIVE ReplaceTags(_)
ReplaceTags(s) ==
  IF s = <<>> THEN <<>>
  ELSE IF Head(s) = "<" /\ \E j \in 2..Len(s) : s[j] = ">"
    THEN LET j == CHOOSE k \in 2..Len(s) :
                    s[k] = ">" /\ \A m \in 2..(k - 1) : s[m] # ">"
         IN  <<" ">> \o ReplaceTags(SubSeq(s, j + 1, Len(s)))
    ELSE <<Head(s)>> \o ReplaceTags(Tail(s))

\* .replace(/\s+/g, ' ')
RECURSIVE CollapseSpaces(_)
CollapseSpaces(s) ==
  IF s = <<>> THEN <<>>
  ELSE IF Head(s) \in WhiteSpace
    THEN IF Len(s) > 1 /\ s[2] \in WhiteSpace
           THEN CollapseSpaces(Tail(s))
           ELSE <<" ">> \o CollapseSpaces(Tail(s))
    ELSE <<Head(s)>> \o CollapseSpaces(Tail(s))

\* .trim()
RECURSIVE trim(_)
trim(s) ==
  IF s = <<>> THEN <<>>
  ELSE IF Head(s) \in WhiteSpace THEN trim(Tail(s))
  ELSE IF s[Len(s)] \in WhiteSpace THEN trim(SubSeq(s, 1, Len(s) - 1))
  ELSE s

\* polling script: stripTags(html)
stripTags(html) == trim(CollapseSpaces(ReplaceTags(html)))

\* the two tests evaluated once for each nature
nonEmergencyOf == [n \in Natures |-> NonEmergencyTest(n)]
nonEmergencyStrippedOf == [n \in Natures |-> NonEmergencyTest(stripTags(n))]

ESO_RESPONSE_LIGHTS_SIRENS == "390"
ESO_RESPONSE_NON_LIGHTS_SIRENS == "395"
DEFAULT_RESPONSE_MODE == ESO_RESPONSE_LIGHTS_SIRENS

\* priority.js: mapPriorityToEsoCode(priorityId, nature); a nature that is
\* not passed is <<>>
mapPriorityToEsoCode(priorityId, nature) ==
  IF nature # <<>> /\ nonEmergencyOf[nature]
    THEN ESO_RESPONSE_NON_LIGHTS_SIRENS
    ELSE CASE priorityId = "1559" -> ESO_RESPONSE_NON_LIGHTS_SIRENS
           [] priorityId = "1560" -> ESO_RESPONSE_LIGHTS_SIRENS
           [] OTHER -> DEFAULT_RESPONSE_MODE

\* Priority.Name of the extra data
PriorityName(id) ==
  CASE id = "1559" -> "Non-emergent"
    [] id = "1560" -> "Emergent"
    [] id = "" -> ""
    [] OTHER -> "Low"

\* callDataForXml.Priority: call.Priority || Priority.Name || ''
PriorityForXml(c) ==
  IF c.Priority # "" THEN c.Priority ELSE PriorityName(c.ExtraPriorityId)

\* xml-generator.js and sheetCallRow: let priorityId = "1560"; if (Priority) priorityId = Priority.toString()
PriorityIdOr1560(priority) == IF priority # "" THEN priority ELSE "1560"

\* xml-generator.js: responseMode of generateXML
XmlGeneratorMode(nature, priority) ==
  IF nature # <<>> /\ nonEmergencyOf[nature]
    THEN "395"
    ELSE CASE PriorityIdOr1560(priority) = "1559" -> "395"
           [] PriorityIdOr1560(priority) = "1560" -> "390"
           [] OTHER -> "390"

\* sheets-logger: responseMode of sheetCallRow
SheetCallRowMode(priority) ==
  CASE PriorityIdOr1560(priority) = "1560" -> "390"
    [] PriorityIdOr1560(priority) = "1559" -> "395"
    [] OTHER -> "390"

\* fetch-existing-calls.js: ResponseModeToScene of generateXML
LegacyXmlMode(responseModeToScene, extraPriorityId) ==
  IF responseModeToScene # "" THEN responseModeToScene
  ELSE IF extraPriorityId # "" THEN mapPriorityToEsoCode(extraPriorityId, <<>>)
  ELSE DEFAULT_RESPONSE_MODE

\* polling script: priorityMap[call.Priority] || '395'
FinalXmlMode(priority) ==
  CASE priority = "1560" -> "390"
    [] priority = "1559" -> "395"
    [] OTHER -> "395"

\* polling script: responseMode of logCallData
LogCallDataMode(nature, priority) ==
  LET byNature == IF nature # <<>> /\ nonEmergencyStrippedOf[nature] THEN "390" ELSE "395"
  IN  IF priority = "1559" THEN "390" ELSE byNature

ResolveFrame == UNCHANGED <<deliveryVars, sinkVars, call, batchVars, xformVars, clientVars>>

\* index.js: the response mode processCallAdded hands to its two sinks
ResolveProcessCallAdded ==
  /\ resolvedBy = "none"
  /\ resolvedBy' = "processCallAdded"
  /\ xmlMode' = XmlGeneratorMode(call.Nature, PriorityForXml(call))
  /\ sheetMode' = SheetCallRowMode(PriorityForXml(call))
  /\ ResolveFrame

\* fetch-existing-calls.js: the response mode processCall hands to its two sinks
ResolveProcessCall ==
  /\ resolvedBy = "none"
  /\ resolvedBy' = "processCall"
  /\ LET responseModeToScene ==
           IF call.ExtraPriorityId # ""
             THEN mapPriorityToEsoCode(call.ExtraPriorityId, <<>>)
             ELSE DEFAULT_RESPONSE_MODE
     IN  xmlMode' = LegacyXmlMode(responseModeToScene, call.ExtraPriorityId)
  /\ sheetMode' = SheetCallRowMode(PriorityForXml(call))
  /\ ResolveFrame

\* polling script: the response mode processCall hands to its two sinks
ResolveFinalProcessCall ==
  /\ resolvedBy = "none"
  /\ resolvedBy' = "finalProcessCall"
  /\ xmlMode' = FinalXmlMode(call.Priority)
  /\ sheetMode' = LogCallDataMode(call.Nature, call.Priority)
  /\ ResolveFrame

\* Any incident, resolved by one of the three programs
ModesInit ==
  /\ fileContent = [f \in Files |-> NoHash]
  /\ cfgMaxRetries = DefaultMaxRetries
  /\ cfgRetryDelay = DefaultRetryDelay
  /\ UploadIdle
  /\ SinkIdle
  /\ call \in Incidents
  /\ resolvedBy = "none"
  /\ xmlMode = ""
  /\ sheetMode = ""
  /\ BatchIdle
  /\ XformIdle
  /\ ClientIdle

ModesNext ==
  \/ ResolveProcessCallAdded
  \/ ResolveProcessCall
  \/ ResolveFinalProcessCall

SpecModes == ModesInit /\ [][ModesNext]_vars

---------------------------------------------------------------------------
\* Batch runs: main of fetch-existing-calls.js ("fetch"), of the polling
\* script ("final") and of export-calls-to-sheets.js ("export").

MaxBatch == 3      \* a batch holds at most MaxBatch incidents

BatchPrograms == {"fetch", "final", "export"}

Pending == [phase |-> "pending", extra |-> "none", upload |-> "none", row |-> "none",
            result |-> "none"]

BatchFrame == UNCHANGED <<deliveryVars, sinkVars, modeVars, xformVars, clientVars, batch, calls>>

\* a loop that does not wait for the previous incident
LoopMayTakeNoAwait(k) == IF k = 1 THEN TRUE ELSE inc[k - 1].phase # "pending"

\* for (const call of calls) { ... await processCall(call) ... }: the loop
\* takes the incident at position k once the one before it has resolved
LoopMayTake(k) == IF k = 1 THEN TRUE ELSE inc[k - 1].phase = "done"

\* the phase that follows the extra-data request: processCall of
\* fetch-existing-calls.js returns false without extra data, while
\* fetchCallExtraData of the polling script and getCallExtraData of the export
\* script answer a failed request with empty data and the incident goes on
AfterExtra(b, ok) ==
  IF b = "fetch" THEN (IF ok THEN "upload" ELSE "done") ELSE "sheet"

\* a loop that forgets to count a success
SuccessCountedNever(b, result, count) == count

\* the counters after the incident resolved with this result
SuccessCounted(b, result, count) == IF result = "true" THEN count + 1 ELSE count

FailCounted(b, result, count) ==
  IF b = "fetch" /\ result # "true" THEN count + 1 ELSE count

\* the incident at position k resolved: the loop counts it
Resolve(k, r) ==
  /\ successCount' = SuccessCounted(batch, r.result, successCount)
  /\ failCount' = FailCounted(batch, r.result, failCount)
  /\ inc' = [inc EXCEPT ![k] = r]

\* the loop takes the incident at position k and asks for its extra data
BatchTake(k) ==
  /\ batch # "none"
  /\ ~ mainDone
  /\ inc[k].phase = "pending"
  /\ LoopMayTake(k)
  /\ inc' = [inc EXCEPT ![k].phase = "extra"]
  /\ UNCHANGED <<successCount, failCount, mainDone>>
  /\ BatchFrame

\* the extra-data request of the incident at position k settled
BatchExtraDone(k, ok) ==
  /\ inc[k].phase = "extra"
  /\ LET next == AfterExtra(batch, ok)
         r == [inc[k] EXCEPT !.phase = next,
                             !.extra = IF ok THEN "ok" ELSE "failed",
                             !.result = IF next = "done" THEN "false" ELSE "none"]
     IN  IF next = "done"
           THEN Resolve(k, r)
           ELSE inc' = [inc EXCEPT ![k] = r] /\ UNCHANGED <<successCount, failCount>>
  /\ UNCHANGED mainDone
  /\ BatchFrame

\* uploadToSFTP of the incident at position k settled
BatchUploadDone(k, ok) ==
  /\ inc[k].phase = "upload"
  /\ LET up == IF ok THEN "ok" ELSE "failed"
     IN  IF batch = "fetch"
           THEN IF ok
                  THEN /\ inc' = [inc EXCEPT ![k].phase = "sheet", ![k].upload = up]
                       /\ UNCHANGED <<successCount, failCount>>
                  ELSE Resolve(k, [inc[k] EXCEPT !.phase = "done", !.upload = up,
                                                 !.result = "false"])
           ELSE Resolve(k, [inc[k] EXCEPT !.phase = "done", !.upload = up,
                                          !.result = "true"])
  /\ UNCHANGED mainDone
  /\ BatchFrame

\* the sheet writer of the incident at position k settled
BatchSheetDone(k, ok) ==
  /\ inc[k].phase = "sheet"
  /\ LET row == IF ok THEN "ok" ELSE "failed"
     IN  CASE batch = "fetch" ->
                Resolve(k, [inc[k] EXCEPT !.phase = "done", !.row = row, !.result = "true"])
           [] batch = "final" ->
                /\ inc' = [inc EXCEPT ![k].phase = "upload", ![k].row = row]
                /\ UNCHANGED <<successCount, failCount>>
           [] OTHER ->
                Resolve(k, [inc[k] EXCEPT !.phase = "done", !.row = row,
                                          !.result = IF ok THEN "true" ELSE "false"])
  /\ UNCHANGED mainDone
  /\ BatchFrame

\* the loop ran out of incidents: main logs the counts and returns
BatchEnd ==
  /\ batch # "none"
  /\ ~ mainDone
  /\ \A k \in 1..Len(calls) : inc[k].phase = "done"
  /\ mainDone' = TRUE
  /\ UNCHANGED <<inc, successCount, failCount>>
  /\ BatchFrame

\* One batch program over the incidents the source returned
BatchInit ==
  /\ fileContent = [f \in Files |-> NoHash]
  /\ cfgMaxRetries = DefaultMaxRetries
  /\ cfgRetryDelay = DefaultRetryDelay
  /\ UploadIdle
  /\ SinkIdle
  /\ ModeIdle
  /\ XformIdle
  /\ ClientIdle
  /\ batch \in BatchPrograms
  /\ \E n \in 0..MaxBatch : calls \in [1..n -> CallIds]
  /\ inc = [k \in 1..Len(calls) |-> Pending]
  /\ successCount = 0
  /\ failCount = 0
  /\ mainDone = FALSE

BatchTakeStep == \E k \in 1..Len(calls) : BatchTake(k)

BatchExtraDoneStep == \E k \in 1..Len(calls), ok \in BOOLEAN : BatchExtraDone(k, ok)

BatchUploadDoneStep == \E k \in 1..Len(calls), ok \in BOOLEAN : BatchUploadDone(k, ok)

BatchSheetDoneStep == \E k \in 1..Len(calls), ok \in BOOLEAN : BatchSheetDone(k, ok)

BatchNext ==
  \/ BatchTakeStep
  \/ BatchExtraDoneStep
  \/ BatchUploadDoneStep
  \/ BatchSheetDoneStep
  \/ BatchEnd

SpecBatch == BatchInit /\ [][BatchNext]_vars

---------------------------------------------------------------------------
\* The transform of one raw incident: generateXML and logCallData of the
\* polling script, generateXML of src/src/xml-generator.js, of
\* fetch-existing-calls.js and of xml-generator-updated.js.

MaxActivity == 3     \* entries of an activity log
MaxDispatches == 1   \* entries of a dispatch list
MaxTicks == 2        \* how far the wall clock advances

StatusIds == {0, 2, 3, 5, 6, 8, 9}

ActivityNames == {"M1", "M2"}

DispatchNames == {"M1", "M3"}

\* the timestamp of the entry at each position of an activity log
Stamps == <<"T1", "T2", "T3", "T4">>

\* new Date().toISOString() at each reading of the wall clock
Nows == <<"N0", "N1", "N2", "N3">>

\* a || b on text
Or(a, b) == IF a # "" THEN a ELSE b

\* {}: no field is set
NoEvent == [StatusId |-> -1, Timestamp |-> "", Type |-> "", Name |-> ""]

\* act.find(e => e.StatusId === statusId) || {}
activityEvent(act, statusId) ==
  LET hits == {i \in 1..Len(act) : act[i].StatusId = statusId}
  IN  IF hits = {} THEN NoEvent ELSE act[CHOOSE i \in hits : \A j \in hits : i <= j]

NameOf(e) == e.Name

IsUnit(e) == e.Type = "Unit"

Names(es) == [i \in 1..Len(es) |-> NameOf(es[i])]

\* activity.filter(a => a.Type === 'Unit').map(a => a.Name)
activityUnits(r) == Names(SelectSeq(r.activity, IsUnit))

\* the names of call.Dispatches whose Type is 'Unit'
dispatchUnits(r) == Names(SelectSeq(r.dispatches, IsUnit))

allUnits(r) == activityUnits(r) \o dispatchUnits(r)

\* a roster that keeps every entry
uniqueUnitNamesKeepAll(xs) == xs

\* [...new Set(xs)]: a Set keeps insertion order and ignores a value it holds
RECURSIVE uniqueUnitNames(_)
uniqueUnitNames(xs) ==
  IF xs = <<>> THEN <<>>
  ELSE LET front == uniqueUnitNames(SubSeq(xs, 1, Len(xs) - 1))
           last == xs[Len(xs)]
       IN  IF \E i \in 1..Len(front) : front[i] = last THEN front ELSE Append(front, last)

\* a cleared time that ignores the closed-timestamp of the incident
GenerateXMLClearedNoClosedOn(r) ==
  Or(activityEvent(r.activity, 8).Timestamp,
     Or(activityEvent(r.activity, 9).Timestamp, activityEvent(r.activity, 2).Timestamp))

\* polling script, generateXML:
\* clearedEvt.Timestamp || returningEvt.Timestamp || availableEvt.Timestamp || call.ClosedOn || ''
GenerateXMLCleared(r) ==
  Or(activityEvent(r.activity, 8).Timestamp,
     Or(activityEvent(r.activity, 9).Timestamp,
        Or(activityEvent(r.activity, 2).Timestamp, r.ClosedOn)))

\* polling script, generateXML: the derived fields and the document, as the
\* list of its elements (name, text) that carry the modelled fields
GenerateXMLFields(r) ==
  LET enRouteEvt == activityEvent(r.activity, 5)
      onSceneEvt == activityEvent(r.activity, 6)
      atPatientEvt == activityEvent(r.activity, 3)
      clearedEvt == activityEvent(r.activity, 8)
      returningEvt == activityEvent(r.activity, 9)
      availableEvt == activityEvent(r.activity, 2)
      enRoute == enRouteEvt.Timestamp
      onScene == onSceneEvt.Timestamp
      atPatient == Or(atPatientEvt.Timestamp, onSceneEvt.Timestamp)
      cleared == GenerateXMLCleared(r)
      backInService == Or(returningEvt.Timestamp,
                          Or(availableEvt.Timestamp, clearedEvt.Timestamp))
  IN  [enRoute |-> enRoute, onScene |-> onScene, atPatient |-> atPatient,
       cleared |-> cleared, backInService |-> backInService,
       units |-> uniqueUnitNames(allUnits(r)),
       xml |-> << <<"IncidentOrOnset", r.LoggedOn>>,
                  <<"UnitEnRoute", enRoute>>,
                  <<"UnitArrivedOnScene", onScene>>,
                  <<"UnitAtPatient", atPatient>>,
                  <<"UnitCleared", cleared>>,
                  <<"UnitBackInService", backInService>>,
                  <<"CallClosedTime", r.ClosedOn>> >>]

\* polling script, logCallData: the fields of the sheet row (no document)
LogCallDataFields(r) ==
  LET enRouteEvent == activityEvent(r.activity, 5)
      onSceneEvent == activityEvent(r.activity, 6)
      atPatientEvent == activityEvent(r.activity, 3)
      clearedEvent == activityEvent(r.activity, 8)
      returningEvent == activityEvent(r.activity, 9)
      availableEvent == activityEvent(r.activity, 2)
      backInServiceEvent == IF returningEvent.Timestamp # "" THEN returningEvent
                            ELSE availableEvent
  IN  [enRoute |-> enRouteEvent.Timestamp,
       onScene |-> onSceneEvent.Timestamp,
       atPatient |-> Or(atPatientEvent.Timestamp, onSceneEvent.Timestamp),
       cleared |-> Or(clearedEvent.Timestamp, r.ClosedOn),
       backInService |-> backInServiceEvent.Timestamp,
       units |-> uniqueUnitNames(allUnits(r)),
       xml |-> <<>>]

\* src/src/xml-generator.js, generateXML, for a call without UnitsCsv, without
\* status texts and without unit times of its own: the unit is the first
\* dispatched unit, and only its activity entries with a timestamp and a
\* truthy status id count
XmlGeneratorFields(r) ==
  LET validUnits == SelectSeq(r.dispatches, IsUnit)
      unitName == IF validUnits = <<>> THEN "" ELSE validUnits[1].Name
      OfUnit(a) == a.Type = "Unit" /\ a.Name = unitName /\ a.Timestamp # "" /\ a.StatusId # 0
      validUnitActivities == SelectSeq(r.activity, OfUnit)
      unitEnRouteTime == activityEvent(validUnitActivities, 5).Timestamp
      unitArrivedOnSceneTime == activityEvent(validUnitActivities, 6).Timestamp
      unitAtPatientTime == ""
      unitClearedTime == ""
      unitBackInServiceTime == Or(activityEvent(validUnitActivities, 2).Timestamp,
                                  unitClearedTime)
  IN  [enRoute |-> unitEnRouteTime, onScene |-> unitArrivedOnSceneTime,
       atPatient |-> unitAtPatientTime, cleared |-> unitClearedTime,
       backInService |-> unitBackInServiceTime,
       units |-> IF unitName = "" THEN <<>> ELSE <<unitName>>,
       xml |-> << <<"IncidentOrOnset", r.LoggedOn>>,
                  <<"IncidentCity", <<>>>>,
                  <<"UnitEnRoute", unitEnRouteTime>>,
                  <<"UnitArrivedOnScene", unitArrivedOnSceneTime>>,
                  <<"UnitAtPatient", unitAtPatientTime>>,
                  <<"UnitCleared", unitClearedTime>>,
                  <<"UnitBackInService", unitBackInServiceTime>> >>]

\* fetch-existing-calls.js, processCall and generateXML, for dispatches whose
\* ID is four or five digits: the timestamp falls back to the wall clock, and
\* the optional elements are added only when their field is set
LegacyXmlFields(r, t) ==
  LET Timestamp == Or(r.LoggedOn, Nows[t + 1])
      City == r.City
  IN  [enRoute |-> "", onScene |-> "", atPatient |-> "", cleared |-> "",
       backInService |-> "",
       units |-> dispatchUnits(r),
       xml |-> << <<"IncidentOrOnset", Or(Timestamp, Nows[t + 1])>> >>
               \o (IF City # <<>> THEN << <<"DestinationCity", City>> >> ELSE <<>>)]

\* xml-generator-updated.js, generateXML: a template with every element, and
\* the wall clock when the call has neither LoggedOn nor Timestamp
UpdatedXmlFields(r, t) ==
  [enRoute |-> "", onScene |-> "", atPatient |-> "", cleared |-> "",
   backInService |-> "",
   units |-> <<>>,
   xml |-> << <<"IncidentOrOnset", Or(r.LoggedOn, Nows[t + 1])>>,
              <<"IncidentCity", r.City>>,
              <<"UnitEnRoute", "">>,
              <<"UnitArrivedOnScene", "">>,
              <<"UnitAtPatient", "">>,
              <<"UnitCleared", "">> >>]

XformFrame == UNCHANGED <<deliveryVars, sinkVars, modeVars, batchVars, clientVars, raw, now>>

\* one generator transforms the raw incident (again)
Transform(by, fields) ==
  /\ raw # NoRaw
  /\ xformBy \in {"none", by}
  /\ xformBy' = by
  /\ derived' = fields
  /\ XformFrame

GenerateXML == Transform("generateXML", GenerateXMLFields(raw))

LogCallDataRow == Transform("logCallData", LogCallDataFields(raw))

XmlGeneratorGenerateXML == Transform("xmlGenerator", XmlGeneratorFields(raw))

LegacyGenerateXML == Transform("legacy", LegacyXmlFields(raw, now))

UpdatedGenerateXML == Transform("updated", UpdatedXmlFields(raw, now))

\* time passes
Tick ==
  /\ raw # NoRaw
  /\ now < MaxTicks
  /\ now' = now + 1
  /\ UNCHANGED <<deliveryVars, sinkVars, modeVars, batchVars, clientVars, raw, xformBy, derived>>

UnitEntry(n) == [Type |-> "Unit", Name |-> n]

\* city names as the source delivers them, one character per position
Cities == {<<>>, <<"C">>, <<"A", "&", "B">>}

Uniform(f) == \A i, j \in DOMAIN f : f[i] = f[j]

\* activity logs: the entry at position i carries the timestamp Stamps[i];
\* either the statuses vary and one unit wrote the whole log, or the units
\* vary and every entry has the same status
ActivityLogs ==
  UNION {{[i \in 1..n |-> [StatusId |-> p[1][i], Timestamp |-> Stamps[i],
                           Type |-> "Unit", Name |-> p[2][i]]] :
            p \in {q \in [1..n -> StatusIds] \X [1..n -> ActivityNames] :
                     Uniform(q[1]) \/ Uniform(q[2])}} :
         n \in 0..MaxActivity}

DispatchLists ==
  UNION {{[i \in 1..n |-> UnitEntry(m[i])] : m \in [1..n -> DispatchNames]} :
         n \in 0..MaxDispatches}

OtherIdle ==
  /\ fileContent = [f \in Files |-> NoHash]
  /\ cfgMaxRetries = DefaultMaxRetries
  /\ cfgRetryDelay = DefaultRetryDelay
  /\ UploadIdle
  /\ SinkIdle
  /\ ModeIdle
  /\ BatchIdle

\* The timestamps and the roster of one incident, under every generator
TransformInit ==
  /\ OtherIdle
  /\ ClientIdle
  /\ \E a \in ActivityLogs, d \in DispatchLists, c \in {"", "TC"} :
       raw = [activity |-> a, dispatches |-> d, ClosedOn |-> c, LoggedOn |-> "L0",
              City |-> <<"C">>, given |-> TRUE]
  /\ xformBy = "none"
  /\ derived = NoDerived
  /\ now = 0

TransformNext ==
  \/ GenerateXML
  \/ LogCallDataRow
  \/ XmlGeneratorGenerateXML

SpecTransform == TransformInit /\ [][TransformNext]_vars

\* The documents of one incident, generated at different times
XmlInit ==
  /\ OtherIdle
  /\ ClientIdle
  /\ \E a \in {al \in ActivityLogs : Len(al) <= 1 /\ \A i \in 1..Len(al) : al[i].Name = "M1"},
        c \in {"", "TC"}, l \in {"", "L0"}, ci \in Cities :
       raw = [activity |-> a, dispatches |-> <<UnitEntry("M1")>>, ClosedOn |-> c,
              LoggedOn |-> l, City |-> ci, given |-> TRUE]
  /\ xformBy = "none"
  /\ derived = NoDerived
  /\ now = 0

XmlNext ==
  \/ GenerateXML
  \/ XmlGeneratorGenerateXML
  \/ LegacyGenerateXML
  \/ UpdatedGenerateXML
  \/ Tick

SpecXml == XmlInit /\ [][XmlNext]_vars

---------------------------------------------------------------------------
\* The token manager: getApiToken and the interceptors of apiClient
\* (token-manager.js).

MaxMinutes == 30       \* the wall clock runs this many minutes
MaxTokenCalls == 3     \* posts to the token endpoint

TOKEN_REFRESH_MARGIN == 900000

LegacyLifetime == 86400000

\* expires_in of a token response, in seconds
ExpiresIn == {600, 1800}

\* minutes between two readings of the clock
Waits == {5, 15}

\* what the token endpoints answer: a token, or a failure and then the answer
\* of the legacy endpoint
TokenAnswers ==
  {[ok |-> TRUE, expires_in |-> e, legacyOk |-> FALSE] : e \in ExpiresIn}
    \cup {[ok |-> FALSE, expires_in |-> 0, legacyOk |-> b] : b \in BOOLEAN}

\* a cache test without the refresh margin
TokenFreshNoMargin == cachedToken # 0 /\ tokenExpiry > tnow

\* cachedToken && tokenExpiry > now + TOKEN_REFRESH_MARGIN
TokenFresh == cachedToken # 0 /\ tokenExpiry > tnow + TOKEN_REFRESH_MARGIN

\* getApiToken(forceRefresh) from a cache (token, expiry): the cache after
\* the call, the token returned (0: the call threw) and the endpoint posts
GetApiToken(forceRefresh, token, expiry, fresh, ans) ==
  IF ~ forceRefresh /\ fresh
    THEN [token |-> token, expiry |-> expiry, returned |-> token, posts |-> 0]
    ELSE IF ans.ok
      THEN [token |-> tokenCalls + 1, expiry |-> tnow + ans.expires_in * 1000,
            returned |-> tokenCalls + 1, posts |-> 1]
      ELSE IF ~ forceRefresh /\ ans.legacyOk
        THEN [token |-> tokenCalls + 1, expiry |-> tnow + LegacyLifetime,
              returned |-> tokenCalls + 1, posts |-> 1]
        ELSE [token |-> token, expiry |-> expiry, returned |-> 0, posts |-> 1]

NoGet == [forced |-> FALSE, before |-> 0, expiry |-> 0, at |-> 0, returned |-> 0,
          posts |-> 0, made |-> FALSE]

NoRequest == [pc |-> "idle", retry |-> FALSE, sends |-> 0, forced |-> 0, got401 |-> 0,
              discarded |-> FALSE, bearer |-> 0, result |-> "none"]

TokenFrame == UNCHANGED <<deliveryVars, sinkVars, modeVars, batchVars, xformVars, flows,
                          connState, connectOrigin, establishedBy, reconnectAttempts,
                          timers>>

\* the outcome of getApiToken written to the cache
Cache(g) ==
  /\ cachedToken' = g.token
  /\ tokenExpiry' = g.expiry
  /\ tokenCalls' = tokenCalls + g.posts

\* a caller asks for a token
CallGetApiToken(forceRefresh, ans) ==
  /\ req.pc = "idle"
  /\ tokenCalls < MaxTokenCalls
  /\ LET g == GetApiToken(forceRefresh, cachedToken, tokenExpiry, TokenFresh, ans)
     IN  /\ Cache(g)
         /\ lastGet' = [forced |-> forceRefresh, before |-> cachedToken,
                        expiry |-> tokenExpiry, at |-> tnow, returned |-> g.returned,
                        posts |-> g.posts, made |-> TRUE]
  /\ UNCHANGED <<tnow, req>>
  /\ TokenFrame

\* time passes
TokenTick(d) ==
  /\ req.pc = "idle"
  /\ tnow + d * 60000 <= MaxMinutes * 60000
  /\ tnow' = tnow + d * 60000
  /\ UNCHANGED <<cachedToken, tokenExpiry, tokenCalls, lastGet, req>>
  /\ TokenFrame

\* apiClient sends a request: the request interceptor asks for a token and
\* puts it into the header; the call fails when no token can be had
RequestSent(ans) ==
  LET g == GetApiToken(FALSE, cachedToken, tokenExpiry, TokenFresh, ans)
  IN  /\ Cache(g)
      /\ req' = IF g.returned = 0
                  THEN [req EXCEPT !.pc = "done", !.result = "token error"]
                  ELSE [req EXCEPT !.pc = "sent", !.sends = @ + 1, !.bearer = g.returned]

\* the caller starts a request through apiClient
ApiRequest(ans) ==
  /\ req.pc = "idle"
  /\ tokenCalls < MaxTokenCalls
  /\ req.result = "none"
  /\ RequestSent(ans)
  /\ UNCHANGED <<tnow, lastGet>>
  /\ TokenFrame

\* a response interceptor that retries on every 401
MayRetryAlways(r) == TRUE

\* !originalRequest._retry
MayRetry(r) == ~ r.retry

\* the response arrives; the response interceptor handles a 401: it marks the
\* request, empties the cache and asks for a token with forceRefresh
ApiResponse(status, ans) ==
  /\ req.pc = "sent"
  /\ IF status = 401 /\ MayRetry(req)
       THEN /\ tokenCalls < MaxTokenCalls + 3
            /\ LET g == GetApiToken(TRUE, 0, 0, FALSE, ans)
                   marked == [req EXCEPT !.retry = TRUE, !.got401 = @ + 1,
                                         !.forced = @ + 1, !.discarded = TRUE]
               IN  /\ Cache(g)
                   /\ req' = IF g.returned = 0
                               THEN [marked EXCEPT !.pc = "done", !.result = "refresh error"]
                               ELSE [marked EXCEPT !.pc = "retrying", !.bearer = g.returned]
       ELSE /\ req' = [req EXCEPT !.pc = "done",
                                  !.got401 = IF status = 401 THEN @ + 1 ELSE @,
                                  !.result = IF status = 200 THEN "response"
                                             ELSE IF status = 401 THEN "error 401"
                                             ELSE "error"]
            /\ UNCHANGED <<cachedToken, tokenExpiry, tokenCalls>>
  /\ UNCHANGED <<tnow, lastGet>>
  /\ TokenFrame

\* return apiClient(originalRequest): the request goes out again, through the
\* request interceptor
ApiRetry(ans) ==
  /\ req.pc = "retrying"
  /\ RequestSent(ans)
  /\ UNCHANGED <<tnow, lastGet>>
  /\ TokenFrame

\* the caller has its answer
RequestOver ==
  /\ req.pc = "done"
  /\ req' = NoRequest
  /\ UNCHANGED <<cachedToken, tokenExpiry, tokenCalls, tnow, lastGet>>
  /\ TokenFrame

TokenInit ==
  /\ OtherIdle
  /\ XformIdle
  /\ ClientIdle

CallGetApiTokenStep ==
  \E forceRefresh \in BOOLEAN, ans \in TokenAnswers : CallGetApiToken(forceRefresh, ans)

TokenTickStep == \E d \in Waits : TokenTick(d)

ApiRequestStep == \E ans \in TokenAnswers : ApiRequest(ans)

ApiResponseStep ==
  \E status \in {200, 401, 500}, ans \in TokenAnswers : ApiResponse(status, ans)

ApiRetryStep == \E ans \in TokenAnswers : ApiRetry(ans)

TokenNext ==
  \/ CallGetApiTokenStep
  \/ TokenTickStep
  \/ ApiRequestStep
  \/ ApiResponseStep
  \/ ApiRetryStep
  \/ RequestOver

SpecToken == TokenInit /\ [][TokenNext]_vars

---------------------------------------------------------------------------
\* The push driver: the SignalR client (signalr-client.js) and the CallAdded
\* handler of index.js, which starts processCallAdded for every notification.

MaxNotifications == 2    \* CallAdded notifications received

maxReconnectAttempts == 10

TokenVarsFrame == UNCHANGED <<cachedToken, tokenExpiry, tnow, tokenCalls, lastGet, req>>

PushFrame == UNCHANGED <<deliveryVars, sinkVars, modeVars, batchVars, xformVars>>

ConnFrame == UNCHANGED <<connState, connectOrigin, establishedBy, reconnectAttempts, timers>>

\* a CallAdded notification arrives. connection.on('CallAdded', (callData) =>
\* { processCallAdded(callData); }) drops the promise: processCallAdded runs up
\* to its first await, the extra-data request, whatever the earlier flows do
CallAdded ==
  /\ connState = "connected"
  /\ Len(flows) < MaxNotifications
  /\ flows' = Append(flows, "fetch")
  /\ ConnFrame
  /\ TokenVarsFrame
  /\ PushFrame

\* an awaited step of the flow of notification n settles: getCallExtraData,
\* then uploadToSFTP, then sheetCallRow
FlowStep(n, ok) ==
  /\ flows[n] \in {"fetch", "upload", "sheet"}
  /\ flows' = [flows EXCEPT ![n] =
                 CASE flows[n] = "fetch" -> IF ok THEN "upload" ELSE "done"
                   [] flows[n] = "upload" -> IF ok THEN "sheet" ELSE "done"
                   [] OTHER -> "done"]
  /\ ConnFrame
  /\ TokenVarsFrame
  /\ PushFrame

\* a handleConnectionClosed whose budget test lets one attempt too many through
HandleConnectionClosedOneMore ==
  IF reconnectAttempts <= maxReconnectAttempts
    THEN reconnectAttempts' = reconnectAttempts + 1 /\ timers' = timers + 1
    ELSE UNCHANGED <<reconnectAttempts, timers>>

\* handleConnectionClosed: count the attempt and schedule connect(), or give up
HandleConnectionClosed ==
  IF reconnectAttempts < maxReconnectAttempts
    THEN reconnectAttempts' = reconnectAttempts + 1 /\ timers' = timers + 1
    ELSE UNCHANGED <<reconnectAttempts, timers>>

\* connect() is called by the owner of the client
Connect ==
  /\ connState = "none"
  /\ connState' = "connecting"
  /\ connectOrigin' = "owner"
  /\ UNCHANGED <<establishedBy, reconnectAttempts, timers, flows>>
  /\ TokenVarsFrame
  /\ PushFrame

\* the timer of handleConnectionClosed fires: connect()
TimerFires ==
  /\ timers > 0
  /\ connState = "closed"
  /\ timers' = timers - 1
  /\ connState' = "connecting"
  /\ connectOrigin' = "timer"
  /\ UNCHANGED <<establishedBy, reconnectAttempts, flows>>
  /\ TokenVarsFrame
  /\ PushFrame

\* await this.connection.start() resolved
StartOk ==
  /\ connState = "connecting"
  /\ connState' = "connected"
  /\ establishedBy' = connectOrigin
  /\ UNCHANGED <<connectOrigin, reconnectAttempts, timers, flows>>
  /\ TokenVarsFrame
  /\ PushFrame

\* await this.connection.start() threw: the catch calls handleConnectionClosed
StartFailed ==
  /\ connState = "connecting"
  /\ connState' = "closed"
  /\ HandleConnectionClosed
  /\ UNCHANGED <<connectOrigin, establishedBy, flows>>
  /\ TokenVarsFrame
  /\ PushFrame

\* the connection drops; the library starts its automatic reconnect
ConnectionLost ==
  /\ connState = "connected"
  /\ connState' = "reconnecting"
  /\ UNCHANGED <<connectOrigin, establishedBy, reconnectAttempts, timers, flows>>
  /\ TokenVarsFrame
  /\ PushFrame

\* onreconnected: the library re-established the connection
Reconnected ==
  /\ connState = "reconnecting"
  /\ connState' = "connected"
  /\ establishedBy' = "library"
  /\ reconnectAttempts' = 0
  /\ UNCHANGED <<connectOrigin, timers, flows>>
  /\ TokenVarsFrame
  /\ PushFrame

\* onclose: the library gave up (nextRetryDelayInMilliseconds returned null)
Closed ==
  /\ connState = "reconnecting"
  /\ connState' = "closed"
  /\ HandleConnectionClosed
  /\ UNCHANGED <<connectOrigin, establishedBy, flows>>
  /\ TokenVarsFrame
  /\ PushFrame

PushInit ==
  /\ OtherIdle
  /\ XformIdle
  /\ ClientIdle

FlowStepStep == \E n \in DOMAIN flows, ok \in BOOLEAN : FlowStep(n, ok)

PushNext ==
  \/ Connect
  \/ TimerFires
  \/ StartOk
  \/ StartFailed
  \/ ConnectionLost
  \/ Reconnected
  \/ Closed
  \/ CallAdded
  \/ FlowStepStep

SpecPush == PushInit /\ [][PushNext]_vars

---------------------------------------------------------------------------
\* Claims about the delivery wrapper.

\* C1 (as claimed): a delivery is skipped as unchanged only when its hash is
\* the hash of the content last transferred successfully to that destination
\* for that file.
C1_SkippedOnlyIfTransferred ==
  (upImpl = "uploadFileToSFTP" /\ upPc = "returned" /\ upResult = "false")
    => lastTransferred[<<upFile, upRemote>>] = upHash

SamePairAsPrevious ==
  /\ upImpl = "uploadFileToSFTP"
  /\ prevCall.impl = "uploadFileToSFTP"
  /\ prevCall.file = upFile
  /\ prevCall.remote = upRemote
  /\ prevCall.hash = upHash
  /\ prevCall.fpOk
  /\ fpOk

MaxRetriesOf(impl) ==
  CASE impl = "uploadFileToSFTP" -> UploadMaxRetries
    [] impl = "uploadToSFTP" -> cfgMaxRetries
    [] impl = "finalUploadToSFTP" -> FinalAttempts - 1
    [] OTHER -> 0

C5_NonRetryableAbortsAtOnce ==
  nonRetryableSeen => upPc = "thrown"

\* The delay the claim expects after the failure number k (k = 0 the first)
ExpectedDelay(impl, k) ==
  CASE impl = "uploadFileToSFTP" -> Min(UploadInitialDelay * Pow2(k), UploadMaxDelay)
    [] impl = "uploadToSFTP" -> Min(cfgRetryDelay * Pow2(k), LegacyMaxDelay)
    [] impl = "finalUploadToSFTP" -> FinalDelayStep * Pow2(k)
    [] OTHER -> 0

DelayCap(impl) ==
  CASE impl = "uploadFileToSFTP" -> UploadMaxDelay
    [] impl = "uploadToSFTP" -> LegacyMaxDelay
    [] OTHER -> FinalDelayStep * Pow2(FinalAttempts)

---------------------------------------------------------------------------
\* Claims about the drivers and the sheet.

\* C3 (as claimed): for every incident a driver has finished with, a failed
\* XML delivery did not keep the sheet writer from being called, and a failed
\* sheet write did not keep the upload from being called.
C3_SinksIndependent ==
  drvPc = "done"
    => /\ uploadFailed => sheetAttempted
       /\ sheetFailed => uploadAttempted

RowsOf(id) == { i \in 2..Len(sheet) : sheet[i].CallId = id }

\* C7 (as claimed): as long as no sheet request has failed, the sheet holds at
\* most one row per Call ID, and exactly one row for the incident whose
\* writer has just run.
C7_OneRowPerCallId ==
  ~ sheetFailureSeen
    => /\ \A id \in CallIds : Cardinality(RowsOf(id)) <= 1
       /\ (lastWrite.fn # "none" /\ lastWrite.enabled)
            => Cardinality(RowsOf(callId)) = 1

LookupFailed == lastWrite.fn = "logCallData" /\ lastWrite.lookupFailed

RowAppended ==
  /\ Len(sheet) = lastWrite.before + 1
  /\ sheet[Len(sheet)] = Row(callId, clock)

\* C8 (as claimed): when the lookup of logCallData failed, the row of the
\* incident has been appended to the sheet.
C8_NeverDropped == LookupFailed => RowAppended

\* C8 (amended): when the lookup of logCallData failed, the row of the
\* incident has been appended to the sheet if the fallback append succeeded,
\* and the sheet is as it was if that append failed too.
C8_FallbackAppends ==
  LookupFailed
    => IF lastWrite.fallbackOk
         THEN RowAppended
         ELSE Len(sheet) = lastWrite.before

C8_Witness ==
  /\ LookupFailed
  /\ lastWrite.fallbackOk
  /\ RowAppended
  /\ Cardinality(RowsOf(callId)) = 2

---------------------------------------------------------------------------
\* Claims about the response mode.

\* C9 (as claimed): for every incident the code in ResponseModeToScene of the
\* XML is the code behind the Response Mode of the sheet row.
C9_SameCode == resolvedBy # "none" => xmlMode = sheetMode

\* the keywords as the claim lists them
ClaimKeywords ==
  { <<"n", "o", "n", "-", "e", "m", "e", "r", "g", "e", "n", "c", "y">>,
    <<"n", "o", "n", " ", "e", "m", "e", "r", "g", "e", "n", "c", "y">>,
    <<"n", "o", "n", "-", "u", "r", "g", "e", "n", "t">>,
    <<"n", "o", "n", " ", "u", "r", "g", "e", "n", "t">>,
    <<"r", "o", "u", "t", "i", "n", "e">>,
    <<"s", "c", "h", "e", "d", "u", "l", "e", "d">> }

mentionsKeywordOf ==
  [n \in Natures |-> \E k \in ClaimKeywords : includes(toLowerCase(n), k)]

\* C10 (as claimed): whenever the nature mentions one of the keywords, the
\* response mode of the XML is 395, whatever the priority id.
C10_KeywordWins ==
  (resolvedBy # "none" /\ mentionsKeywordOf[call.Nature]) => xmlMode = "395"

\* the priority id of an incident, given as a bare value or inside the
\* Priority structure of the extra data
GivenPriorityId == IF call.Priority # "" THEN call.Priority ELSE call.ExtraPriorityId

OnePriority ==
  call.Priority = "" \/ call.ExtraPriorityId = "" \/ call.Priority = call.ExtraPriorityId

\* C11 (as claimed): when the nature holds no keyword, the response mode of
\* the XML is 395 if the priority id is 1559 and 390 for 1560 and for every
\* unrecognised or missing id.
C11_PriorityDefault ==
  (/\ resolvedBy # "none"
   /\ OnePriority
   /\ ~ mentionsKeywordOf[call.Nature]
   /\ ~ nonEmergencyOf[call.Nature])
    => xmlMode = (IF GivenPriorityId = "1559" THEN "395" ELSE "390")

---------------------------------------------------------------------------
\* Claims about batch runs.

Positions == 1..Len(calls)

Succeeded == {k \in Positions : inc[k].result = "true"}

C13_FailedExtraSkipped ==
  \A k \in Positions :
    (inc[k].extra = "failed" /\ inc[k].phase = "done")
      => /\ inc[k].upload = "none"
         /\ inc[k].row = "none"
         /\ inc[k].result # "true"

\* C14: incidents are processed one at a time in the order of the list: the
\* extra-data request of the incident at position k+1 has not started unless
\* the extra-data request, the upload and the sheet write of the incident at
\* position k have all finished.
C14_OneAtATime ==
  \A k \in Positions :
    (k > 1 /\ inc[k].phase # "pending") => inc[k - 1].phase = "done"

C14_Witness ==
  /\ batch = "final"
  /\ Len(calls) >= 2
  /\ inc[1].phase = "done"
  /\ inc[1].upload # "none"
  /\ inc[1].row # "none"
  /\ inc[2].phase = "extra"

---------------------------------------------------------------------------
\* Claims about the transform.

\* the timestamp of the first entry whose status code is one of ids, or ""
FirstStamp(act, ids) ==
  LET hits == {i \in 1..Len(act) : act[i].StatusId \in ids}
  IN  IF hits = {} THEN "" ELSE act[CHOOSE i \in hits : \A j \in hits : i <= j].Timestamp

HasStatus(act, ids) == \E i \in 1..Len(act) : act[i].StatusId \in ids

DerivesTimes == xformBy \in {"generateXML", "logCallData", "xmlGenerator"}

\* C15 (as claimed): back-in-service is the timestamp of the first entry with
\* status 8, else that of the first entry with status 0 or 2, else the cleared
\* value already derived, else absent.
C15_BackInService ==
  DerivesTimes =>
    derived.backInService =
      Or(FirstStamp(raw.activity, {8}),
         Or(FirstStamp(raw.activity, {0, 2}), derived.cleared))

StatusesOf(act) == [i \in 1..Len(act) |-> act[i].StatusId]

\* C16 (as claimed): the activity log 5 at T1, 6 at T2, 8 at T3 gives
\* en-route T1, on-scene T2, at-patient T2, cleared T3 and back-in-service T3.
C16_Example ==
  (DerivesTimes /\ StatusesOf(raw.activity) = <<5, 6, 8>>)
    => /\ derived.enRoute = "T1"
       /\ derived.onScene = "T2"
       /\ derived.atPatient = "T2"
       /\ derived.cleared = "T3"
       /\ derived.backInService = "T3"

PollingDerives == xformBy \in {"generateXML", "logCallData"}

FirstAt(xs, n) == CHOOSE i \in 1..Len(xs) : xs[i] = n /\ \A j \in 1..(i - 1) : xs[j] # n

\* C18: the roster holds each unit name of the activity-derived names followed
\* by the dispatch-derived names exactly once, in the order of the first
\* occurrences.
C18_RosterUnique ==
  PollingDerives =>
    LET all == allUnits(raw)
        roster == derived.units
    IN  /\ \A i, j \in 1..Len(roster) : roster[i] = roster[j] => i = j
        /\ {roster[i] : i \in 1..Len(roster)} = {all[i] : i \in 1..Len(all)}
        /\ \A i, j \in 1..Len(roster) :
             i < j => FirstAt(all, roster[i]) < FirstAt(all, roster[j])

C18_Witness ==
  /\ xformBy = "logCallData"
  /\ activityUnits(raw) = <<"M2", "M1", "M2">>
  /\ dispatchUnits(raw) = <<"M1">>
  /\ derived.units = <<"M2", "M1">>

\* C19 (as claimed): transforming the same raw incident again, at any later
\* time, gives the same derived fields and the same document.
C19_SameTwice ==
  [][(xformBy # "none" /\ xformBy' = xformBy /\ raw' = raw) => derived' = derived]_vars

\* the elements a generator can write, in document order
Schema(by) ==
  CASE by = "generateXML" ->
         <<"IncidentOrOnset", "UnitEnRoute", "UnitArrivedOnScene", "UnitAtPatient",
           "UnitCleared", "UnitBackInService", "CallClosedTime">>
    [] by = "xmlGenerator" ->
         <<"IncidentOrOnset", "IncidentCity", "UnitEnRoute", "UnitArrivedOnScene",
           "UnitAtPatient", "UnitCleared", "UnitBackInService">>
    [] by = "legacy" -> <<"IncidentOrOnset", "DestinationCity">>
    [] OTHER ->
         <<"IncidentOrOnset", "IncidentCity", "UnitEnRoute", "UnitArrivedOnScene",
           "UnitAtPatient", "UnitCleared">>

\* C20 (as claimed): every element of the schema is in every document; an
\* empty field gives an empty element, never a missing one.
C20_FixedShape ==
  xformBy \in {"generateXML", "xmlGenerator", "legacy", "updated"}
    => [i \in 1..Len(derived.xml) |-> derived.xml[i][1]] = Schema(xformBy)

---------------------------------------------------------------------------
\* Claims about the text of the document.

\* the entity that stands for a special character
XmlEntity(c) ==
  CASE c = "&" -> <<"&", "a", "m", "p", ";">>
    [] c = "<" -> <<"&", "l", "t", ";">>
    [] c = ">" -> <<"&", "g", "t", ";">>
    [] c = "\"" -> <<"&", "q", "u", "o", "t", ";">>
    [] c = "'" -> <<"&", "a", "p", "o", "s", ";">>
    [] OTHER -> <<c>>

RECURSIVE XmlEscaped(_)
XmlEscaped(text) ==
  IF text = <<>> THEN <<>> ELSE XmlEntity(Head(text)) \o XmlEscaped(Tail(text))

\* C21 (as claimed): the text of the city element of a document is the city
\* of the raw incident with & < > " ' replaced by their entities.
C21_TextEscaped ==
  xformBy \in {"legacy", "updated"} =>
    \A i \in 1..Len(derived.xml) :
      derived.xml[i][1] \in {"DestinationCity", "IncidentCity"}
        => derived.xml[i][2] = XmlEscaped(raw.City)

---------------------------------------------------------------------------
\* Claims about the token manager.

\* the token held before the call was to expire more than 15 minutes later
HeldFor15Minutes ==
  lastGet.before # 0 /\ lastGet.expiry > lastGet.at + 15 * 60000

\* C22: getApiToken() without forced refresh returns the cached token and posts
\* nothing to the token endpoint when a cached token expires more than 15
\* minutes from now; in every other case it posts to the token endpoint.
C22_CachedUnlessNearExpiry ==
  (lastGet.made /\ ~ lastGet.forced) =>
    IF HeldFor15Minutes
      THEN lastGet.posts = 0 /\ lastGet.returned = lastGet.before
      ELSE lastGet.posts = 1

C22_Witness ==
  /\ lastGet.made
  /\ ~ lastGet.forced
  /\ lastGet.before # 0
  /\ lastGet.expiry = lastGet.at + 15 * 60000
  /\ lastGet.posts = 1
  /\ lastGet.returned # lastGet.before

Answered401 == req.pc = "done" /\ req.got401 >= 1

---------------------------------------------------------------------------
\* Claims about clearing the fingerprint cache.

\* C24 (as claimed): clearFingerprintCache(filePath) removes the entries of
\* that file for all its destinations and leaves the entry of every other
\* file as it was.
C24_ClearsOnlyThatFile ==
  [][\A f \in Files :
       ClearFingerprintCache(f) =>
         \A g \in Files, r \in Remotes :
           fileFingerprints'[cacheKey(g, r)] =
             IF g = f THEN NoHash ELSE fileFingerprints[cacheKey(g, r)]]_vars


---------------------------------------------------------------------------
\* Claims about the push driver.

InProgress == {n \in DOMAIN flows : flows[n] # "done"}

\* C25: the handling of two CallAdded notifications never interleaves: at any
\* moment at most one notification is between the start of its extra-data
\* fetch and the end of its spreadsheet write.
C25_NeverInterleaves == Cardinality(InProgress) <= 1

\* C26: whenever the connection is re-established, by the library's automatic
\* reconnect or by a connect() scheduled from handleConnectionClosed, the
\* reconnect-attempt counter is back at 0.
C26_CounterReset ==
  (connState = "connected" /\ establishedBy \in {"library", "timer"})
    => reconnectAttempts = 0

\* C27: the reconnect-attempt counter never exceeds maxReconnectAttempts, and
\* once it stands at maxReconnectAttempts no step schedules another connect().
C27_BoundedReconnects ==
  /\ [](reconnectAttempts <= maxReconnectAttempts)
  /\ [][reconnectAttempts = maxReconnectAttempts => timers' <= timers]_vars

\* the budget is spent: the tenth scheduled connect() failed and nothing is pending
C27_Witness ==
  /\ reconnectAttempts = maxReconnectAttempts
  /\ connState = "closed"
  /\ timers = 0

---------------------------------------------------------------------------
\* Claims about a failed fingerprint, connections and withRetry.

FingerprintFailed == upImpl = "uploadFileToSFTP" /\ upPc # "idle" /\ ~ fpOk

\* C28: when the fingerprint of the local file cannot be computed, the file
\* counts as changed and the call goes on to the transfer (it never returns
\* false, and it ends only after at least one attempt), and the call leaves
\* the fingerprint cache exactly as it was.
C28_FingerprintFailure ==
  /\ [](FingerprintFailed
          => /\ hasChanged
             /\ upResult # "false"
             /\ (upPc \in Finished => attempts >= 1))
  /\ [][(upPc = "idle" /\ FingerprintFailed')
          => (fileFingerprints' = fileFingerprints /\ upPc' = "attempt")]_vars

\* the pair has a cached fingerprint of an older content, the fingerprint of
\* the new content failed, the file was transferred and the entry is still there
C28_Witness ==
  /\ FingerprintFailed
  /\ upPc = "returned"
  /\ upResult = "true"
  /\ fileFingerprints[cacheKey(upFile, upRemote)] # NoHash
  /\ fileFingerprints[cacheKey(upFile, upRemote)] # upHash

\* C29: the connection a transfer attempt opened is closed before the next
\* attempt starts and before the upload function returns or throws.
C29_ConnectionClosed == (upPc \in {"attempt"} \cup Finished) => ~ sftpOpen

ViaWithRetry == upImpl = "uploadFileToSFTP"

\* C30: withRetry returns as soon as an attempt succeeds, with that attempt's
\* result and without another attempt, also after failed attempts; when it
\* gives up it throws the error of the last attempt it made.
C30_WithRetryOutcome ==
  /\ []((ViaWithRetry /\ upResult = "true") => upPc = "returned")
  /\ [][(ViaWithRetry /\ upResult = "true") => attempts' <= attempts]_vars
  /\ []((ViaWithRetry /\ upPc = "thrown")
          => (thrownError = lastError /\ thrownError # NoError))

\* the third attempt succeeded after two that failed
C30_Witness ==
  /\ ViaWithRetry
  /\ upPc = "returned"
  /\ upResult = "true"
  /\ attempts = 3
  /\ lastError # NoError

=============================================================================
